---- MODULE Spec2Model ----
(***************************************************************************)
(* Model of galister/lensing.                                              *)
(*                                                                         *)
(*  - src/src/main.rs: the appsink callbacks.  new_sample classifies the   *)
(*    sample's single memory as FdMemory or not, stages a non-fd memory    *)
(*    into a fresh memfd (create, set_len, add_seals, add_seal, mmap,      *)
(*    copy) and sends one descriptor with send_fds under the stream mutex; *)
(*    eos shuts the write half of the stream down under the same mutex.    *)
(*  - src/src/pw_capture.rs: the format offer that pipewire_init_stream    *)
(*    builds from the candidates and hands to stream.connect; the          *)
(*    param_changed callback, which resets `format` and asks for dmabuf    *)
(*    buffers; the process callback, which drains the stream's queue and   *)
(*    hands the last buffer to on_frame.                                   *)
(*                                                                         *)
(* The two files do not call each other, and the offer is made before the  *)
(* callbacks run, so each part gets its own next-state relation and        *)
(* specification (SpecSink, SpecOffer, SpecCapture) over the shared        *)
(* variable list.                                                          *)
(***************************************************************************)
EXTENDS Integers, Sequences, FiniteSets, TLC

\* ------------------------------------------------------------------ bounds
MaxLen == 2        \* longest mapped byte range of a sample
MaxFrames == 2     \* new_sample invocations in one run
MaxEos == 2        \* eos callback invocations in one run
MaxQueue == 2      \* buffers queued on the pipewire stream at once
MaxBuffers == 3    \* buffers the producer queues in one run
MaxPlanes == 2     \* datas of one pipewire buffer
MaxFormats == 2    \* candidates passed to pipewire_init_stream
MaxParams == 2     \* param_changed calls in one run

VARIABLES
    \* main.rs, new_sample callback
    ns_pc,          \* position of the callback
    cur,            \* the sample pulled by this invocation
    map,            \* buffer.map_readable(): the mapped bytes
    mfd,            \* id of the memfd being staged, 0 when none
    result,         \* what the last finished invocation returned
    cause,          \* the step that made it fail, "none" otherwise
    injected,       \* a step of this invocation failed for lack of a resource
    sendOk,         \* result of this invocation's send_fds
    sentThisCall,   \* messages this invocation put on the stream
    allocsThisCall, \* memfds this invocation created
    copiedThisCall, \* bytes this invocation copied
    frames,         \* invocations started so far
    flow,           \* "ok" while the appsink is handed samples, "stopped"
                    \* once the callback returned a FlowError
    \* main.rs, shared objects
    regions,        \* the memfds created so far
    wire,           \* messages written to the UnixStream, in order
    mutex,          \* holder of the Mutex<UnixStream>
    writeShut,      \* SHUT_WR was applied to the stream
    readShut,       \* SHUT_RD was applied to the stream
    \* main.rs, eos callback
    eos_pc,
    eosCalls,       \* invocations started so far
    shutdownCalls,  \* shutdown() calls executed so far
    shutRet,        \* what the last shutdown() returned
    eosReport,      \* what the last finished eos invocation surfaced
    \* pw_capture.rs
    pwQueue,        \* buffers queued on the stream, oldest first
    nextBuf,        \* buffers queued so far
    format,         \* the captured PipewireFrameFormat
    onFrame,        \* on_frame calls so far: <<format, buffer id, planes>>
    discarded,      \* buffers dequeued and never handed to on_frame
    paramCalls,     \* param_changed calls so far
    lastParam,      \* the id and param of the latest param_changed call
    updateParams,   \* the params passed to stream.update_params, in order
    negotiated,     \* param_changed has set `format` and asked for buffers
    crashed,        \* the out-of-bounds read of line 171 ended the process
    offer_pc,       \* where pipewire_init_stream is: "create", "connect", "run"
    formats,        \* the candidates passed to pipewire_init_stream
    fps,            \* the frame rate passed to pipewire_init_stream
    format_params,  \* the pointers collected at lines 213-216
    offer           \* the objects stream.connect read through them

sinkVars == <<ns_pc, cur, map, mfd, result, cause, injected, sendOk,
              sentThisCall, allocsThisCall, copiedThisCall, frames, flow,
              regions,
              wire, mutex, writeShut, readShut, eos_pc, eosCalls,
              shutdownCalls, shutRet, eosReport>>

captureVars == <<pwQueue, nextBuf, format, onFrame, discarded, paramCalls,
                 lastParam, updateParams, negotiated, crashed>>

offerVars == <<offer_pc, formats, fps, format_params, offer>>

vars == <<sinkVars, captureVars, offerVars>>


\* ------------------------------------------------- main.rs: data of a run

\* Byte values of a mapped range (non-zero, so a copy differs from the
\* zero fill of set_len).
Bytes == {1, 2}

\* The mapped byte ranges tried: every length up to MaxLen, the bytes
\* alternating from either value.
ByteSeqs ==
    {[i \in 1..n |-> IF i % 2 = 1 THEN b ELSE 3 - b]
        : n \in 0..MaxLen, b \in Bytes}

\* Descriptors of FdMemory samples.
InputFds == {3, 4}

\* A sample as appsink.pull_sample() yields it: whether the pull succeeds,
\* whether the sample has a buffer, the buffer's n_memory(), whether memory 0
\* downcasts to FdMemory, its fd, and the bytes a readable map shows.
NoSample ==
    [pull |-> FALSE, hasBuffer |-> FALSE, n_memory |-> 0, isFd |-> FALSE,
     fd |-> 0, bytes |-> <<>>]

Samples ==
    {NoSample, [NoSample EXCEPT !.pull = TRUE]}
    \cup {[NoSample EXCEPT !.pull = TRUE, !.hasBuffer = TRUE, !.n_memory = n,
                           !.bytes = <<1>>] : n \in {0, 2}}
    \cup {[NoSample EXCEPT !.pull = TRUE, !.hasBuffer = TRUE, !.n_memory = 1,
                           !.isFd = TRUE, !.fd = f, !.bytes = <<1>>]
            : f \in InputFds}
    \cup {[NoSample EXCEPT !.pull = TRUE, !.hasBuffer = TRUE, !.n_memory = 1,
                           !.bytes = b] : b \in ByteSeqs}

\* A memfd: created, its file length and contents, its seals, the file
\* operations applied to it in order, and whether this process still holds it.
NoRegion ==
    [created |-> FALSE, open |-> FALSE, size |-> 0, data |-> <<>>,
     seals |-> {}, log |-> <<>>]

\* memfd::MemfdOptions::default().allow_sealing(true).create(..): an empty
\* file with no seals.
NewRegion == [NoRegion EXCEPT !.created = TRUE, !.open = TRUE,
                              !.log = <<"create">>]

NewRegionId == Cardinality({r \in DOMAIN regions : regions[r].created}) + 1

\* File::set_len(n): truncates, or extends with zero bytes.
Resized(data, n) ==
    [i \in 1..n |-> IF i <= Len(data) THEN data[i] ELSE 0]

\* What the seals of a memfd let a holder of its descriptor do.
SetLenAllowed(r, n) ==
    /\ n > r.size => "SealGrow" \notin r.seals
    /\ n < r.size => "SealShrink" \notin r.seals

AddSealAllowed(r) == "SealSeal" \notin r.seals

MmapMutAllowed(r) == "SealWrite" \notin r.seals

\* The descriptor send_fds is given, and the message it writes: the payload
\* &[0u8; 1] with the descriptors as ancillary data.
FdOf(s) == [kind |-> "FdMemory", id |-> s.fd]

MemfdOf(r) == [kind |-> "memfd", id |-> r]

\* Faulty variant of Message: the descriptor is sent with an empty payload.
MessageNoPayload(desc) == [payload |-> <<>>, fds |-> <<desc>>]

Message(desc) == [payload |-> <<0>>, fds |-> <<desc>>]

\* Faulty variant of IsFdMemory: the downcast is never taken, every memory is copied.
NeverFdMemory(s) == FALSE

\* mem.downcast_memory_ref::<FdMemory>() is Some.
IsFdMemory(s) == s.isFd

\* Faulty variant of CopyFromSlice: the memfd is left as set_len made it.
CopyNothing(dst, src) == dst

\* mmap.copy_from_slice(map.as_slice()): the mapping's bytes become the
\* slice's.
CopyFromSlice(dst, src) == src

\* Faulty variant of LockFree: the stream is used without taking the mutex.
LockIgnored == TRUE

\* Mutex::lock() returns once no other guard of the stream's mutex is alive.
LockFree == mutex = "free"

\* The first seal set: SealShrink and SealGrow, added in one add_seals call.
FirstSeals == {"SealShrink", "SealGrow"}

\* The second seal.
SecondSeal == "SealSeal"

\* Faulty variant of ShutdownHow: both directions are shut down.
ShutdownBoth == "Both"

\* shutdown(std::net::Shutdown::Write).
ShutdownHow == "Write"

\* `let _ = ...shutdown(..)`: the eos callback returns () whatever shutdown
\* returned.
EosReport(ret) == "none"

\* The memfd of this invocation is dropped when the callback returns: this
\* process's descriptor is closed.  A memfd whose descriptor was sent lives
\* on with the receiver; one that was not is gone with its last descriptor.
Dropped(rs, r, sent) ==
    IF r = 0
      THEN rs
      ELSE IF sent
        THEN [rs EXCEPT ![r].open = FALSE]
        ELSE [rs EXCEPT ![r] = [NoRegion EXCEPT !.created = TRUE]]

\* --------------------------------------------- main.rs: new_sample callback

eosVars == <<eos_pc, eosCalls, shutdownCalls, shutRet, eosReport>>

streamVars == <<wire, mutex, writeShut, readShut>>

\* The descriptor this invocation sends: the memfd it staged (mfd.as_raw_fd())
\* or the fd of the FdMemory (fd_memory.fd()).
SendDesc == IF mfd # 0 THEN MemfdOf(mfd) ELSE FdOf(cur)

\* Faulty variant of FlowAfter: an error return is taken for Ok.
FlowNeverStops(r) == "ok"

\* What the callback's return value tells the pipeline: Ok keeps the samples
\* coming, Err(FlowError::Eos) and Err(FlowError::Error) stop the flow.
FlowAfter(r) == IF r = "Ok" THEN "ok" ELSE "stopped"

\* The callback returns r (Ok, or the FlowError of an early `return Err(..)`
\* or `?`), c naming the step that failed: sample, map and memfd go out of
\* scope.
Return(r, c) ==
    /\ ns_pc' = "idle"
    /\ result' = r
    /\ cause' = c
    /\ cur' = NoSample
    /\ map' = <<>>
    /\ mfd' = 0
    /\ sendOk' = FALSE
    /\ allocsThisCall' = 0
    /\ copiedThisCall' = 0
    /\ regions' = Dropped(regions, mfd, sendOk)
    /\ flow' = FlowAfter(r)

\* A step of the staging succeeded: the callback goes on to step p.
Goto(p) ==
    /\ ns_pc' = p
    /\ UNCHANGED <<cur, result, cause, sendOk, sentThisCall, frames, flow,
                   streamVars>>

\* Faulty variant of Fail: the descriptor is sent before the step's result is
\* looked at.
FailAfterSend(c) ==
    /\ Return("Error", c)
    /\ wire' = Append(wire, Message(SendDesc))
    /\ sentThisCall' = sentThisCall + 1
    /\ UNCHANGED <<frames, mutex, writeShut, readShut>>

\* A step of the staging failed: nothing was written to the stream.
Fail(c) ==
    /\ Return("Error", c)
    /\ UNCHANGED <<sentThisCall, frames, streamVars>>

\* Lines 85-114: pull the sample, take its buffer, require a single memory,
\* and branch on the downcast to FdMemory.
NS_Pull(s) ==
    /\ ns_pc = "idle"
    /\ flow = "ok"
    /\ frames < MaxFrames
    /\ frames' = frames + 1
    /\ injected' = FALSE
    /\ sentThisCall' = 0
    /\ IF ~s.pull
         THEN Return("Eos", "pull_sample")
         ELSE IF ~s.hasBuffer
           THEN Return("Error", "buffer")
           ELSE IF s.n_memory # 1
             THEN Return("Error", "n_memory")
             ELSE /\ ns_pc' = IF IsFdMemory(s) THEN "lock" ELSE "map"
                  /\ cur' = s
                  /\ result' = "running"
                  /\ cause' = "none"
                  /\ UNCHANGED <<map, mfd, sendOk, allocsThisCall,
                                 copiedThisCall, regions, flow>>
    /\ UNCHANGED <<streamVars, eosVars, captureVars, offerVars>>

\* Lines 142-150: buffer.map_readable().
NS_Map ==
    /\ ns_pc = "map"
    /\ \E ok \in BOOLEAN :
         /\ injected' = (injected \/ ~ok)
         /\ IF ok
              THEN /\ map' = cur.bytes
                   /\ Goto("create")
                   /\ UNCHANGED <<mfd, regions, allocsThisCall,
                                  copiedThisCall>>
              ELSE Fail("map_readable")
    /\ UNCHANGED <<eosVars, captureVars, offerVars>>

\* Lines 155-164: create the memfd with sealing allowed.
NS_Create ==
    /\ ns_pc = "create"
    /\ \E ok \in BOOLEAN :
         /\ injected' = (injected \/ ~ok)
         /\ IF ok
              THEN /\ mfd' = NewRegionId
                   /\ regions' = [regions EXCEPT ![NewRegionId] = NewRegion]
                   /\ allocsThisCall' = allocsThisCall + 1
                   /\ Goto("set_len")
                   /\ UNCHANGED <<map, copiedThisCall>>
              ELSE Fail("create")
    /\ UNCHANGED <<eosVars, captureVars, offerVars>>

\* Lines 166-174: mfd.as_file().set_len(map.size()).
NS_SetLen ==
    /\ ns_pc = "set_len"
    /\ \E ok \in BOOLEAN :
         /\ injected' = (injected \/ ~ok)
         /\ IF ok /\ SetLenAllowed(regions[mfd], Len(map))
              THEN /\ regions' =
                        [regions EXCEPT
                           ![mfd].size = Len(map),
                           ![mfd].data = Resized(regions[mfd].data, Len(map)),
                           ![mfd].log = Append(regions[mfd].log, "set_len")]
                   /\ Goto("add_seals")
                   /\ UNCHANGED <<map, mfd, allocsThisCall, copiedThisCall>>
              ELSE Fail("set_len")
    /\ UNCHANGED <<eosVars, captureVars, offerVars>>

\* Lines 176-187: add_seals({SealShrink, SealGrow}).
NS_AddSeals ==
    /\ ns_pc = "add_seals"
    /\ \E ok \in BOOLEAN :
         /\ injected' = (injected \/ ~ok)
         /\ IF ok /\ AddSealAllowed(regions[mfd])
              THEN /\ regions' =
                        [regions EXCEPT
                           ![mfd].seals = regions[mfd].seals \cup FirstSeals,
                           ![mfd].log = Append(regions[mfd].log, "add_seals")]
                   /\ Goto("add_seal")
                   /\ UNCHANGED <<map, mfd, allocsThisCall, copiedThisCall>>
              ELSE Fail("add_seals")
    /\ UNCHANGED <<eosVars, captureVars, offerVars>>

\* Lines 189-197: add_seal(SealSeal).
NS_AddSeal ==
    /\ ns_pc = "add_seal"
    /\ \E ok \in BOOLEAN :
         /\ injected' = (injected \/ ~ok)
         /\ IF ok /\ AddSealAllowed(regions[mfd])
              THEN /\ regions' =
                        [regions EXCEPT
                           ![mfd].seals = regions[mfd].seals \cup {SecondSeal},
                           ![mfd].log = Append(regions[mfd].log, "add_seal")]
                   /\ Goto("mmap")
                   /\ UNCHANGED <<map, mfd, allocsThisCall, copiedThisCall>>
              ELSE Fail("add_seal")
    /\ UNCHANGED <<eosVars, captureVars, offerVars>>

\* Lines 200-208: MmapMut::map_mut(mfd.as_file()).
NS_Mmap ==
    /\ ns_pc = "mmap"
    /\ \E ok \in BOOLEAN :
         /\ injected' = (injected \/ ~ok)
         /\ IF ok /\ MmapMutAllowed(regions[mfd])
              THEN /\ Goto("copy")
                   /\ UNCHANGED <<map, mfd, regions, allocsThisCall,
                                  copiedThisCall>>
              ELSE Fail("mmap")
    /\ UNCHANGED <<eosVars, captureVars, offerVars>>

\* Line 210: mmap.copy_from_slice(map.as_slice()), which panics when the two
\* lengths differ.
NS_Copy ==
    /\ ns_pc = "copy"
    /\ IF regions[mfd].size = Len(map)
         THEN /\ regions' =
                   [regions EXCEPT
                      ![mfd].data = CopyFromSlice(regions[mfd].data, map),
                      ![mfd].log = Append(regions[mfd].log, "copy")]
              /\ copiedThisCall' = copiedThisCall + Len(map)
              /\ Goto("lock")
         ELSE /\ Goto("panicked")
              /\ UNCHANGED <<regions, copiedThisCall>>
    /\ UNCHANGED <<map, mfd, injected, allocsThisCall, eosVars,
                   captureVars, offerVars>>

\* Lines 121-123 and 213-215: stream.lock().unwrap().
NS_Lock ==
    /\ ns_pc = "lock"
    /\ LockFree
    /\ mutex' = "new_sample"
    /\ ns_pc' = "send"
    /\ UNCHANGED <<cur, map, mfd, result, cause, injected, sendOk,
                   sentThisCall, allocsThisCall, copiedThisCall, frames,
                   flow, regions, wire, writeShut, readShut, eosVars,
                   captureVars, offerVars>>

\* Lines 124 and 216: send_fds(&[0u8; 1], &[fd]) with the lock held.  It
\* fails once the write half is shut down, or on any I/O error.
NS_Send ==
    /\ ns_pc = "send"
    /\ \E ok \in BOOLEAN :
         IF ok /\ ~writeShut
           THEN /\ wire' = Append(wire, Message(SendDesc))
                /\ sentThisCall' = sentThisCall + 1
                /\ sendOk' = TRUE
           ELSE /\ sendOk' = FALSE
                /\ UNCHANGED <<wire, sentThisCall>>
    /\ ns_pc' = "unlock"
    /\ UNCHANGED <<cur, map, mfd, result, cause, injected, allocsThisCall,
                   copiedThisCall, frames, flow, regions, mutex, writeShut,
                   readShut, eosVars, captureVars, offerVars>>

\* Lines 125-133, 217-228: the guard is dropped at the end of the statement,
\* then the callback returns Ok or the send error.
NS_Unlock ==
    /\ ns_pc = "unlock"
    /\ mutex' = "free"
    /\ IF sendOk THEN Return("Ok", "none") ELSE Return("Error", "send_fds")
    /\ UNCHANGED <<injected, sentThisCall, frames, wire, writeShut, readShut,
                   eosVars, captureVars, offerVars>>


\* --------------------------------------------------- main.rs: eos callback

nsVars == <<ns_pc, cur, map, mfd, result, cause, injected, sendOk,
            sentThisCall, allocsThisCall, copiedThisCall, frames, flow,
            regions>>

\* The appsink reaches end of stream and invokes the eos callback.
EOS_Begin ==
    /\ eos_pc = "idle"
    /\ eosCalls < MaxEos
    /\ eosCalls' = eosCalls + 1
    /\ eos_pc' = "lock"
    /\ UNCHANGED <<shutdownCalls, shutRet, eosReport, nsVars, streamVars,
                   captureVars, offerVars>>

\* Line 79: stream.lock().unwrap().
EOS_Lock ==
    /\ eos_pc = "lock"
    /\ LockFree
    /\ mutex' = "eos"
    /\ eos_pc' = "shutdown"
    /\ UNCHANGED <<eosCalls, shutdownCalls, shutRet, eosReport, nsVars, wire,
                   writeShut, readShut, captureVars, offerVars>>

\* Line 79: shutdown(how) on the stream, with the lock held.  What a repeated
\* shutdown returns is the platform's choice.
EOS_Shutdown ==
    /\ eos_pc = "shutdown"
    /\ shutdownCalls' = shutdownCalls + 1
    /\ writeShut' = (writeShut \/ ShutdownHow \in {"Write", "Both"})
    /\ readShut' = (readShut \/ ShutdownHow \in {"Read", "Both"})
    /\ \E ret \in (IF writeShut THEN {"Ok", "Err"} ELSE {"Ok"}) :
         shutRet' = ret
    /\ eos_pc' = "unlock"
    /\ UNCHANGED <<eosCalls, eosReport, nsVars, wire, mutex,
                   captureVars, offerVars>>

\* Lines 79-80: the result is discarded, the guard dropped, the callback
\* returns.
EOS_Unlock ==
    /\ eos_pc = "unlock"
    /\ mutex' = "free"
    /\ eosReport' = EosReport(shutRet)
    /\ eos_pc' = "idle"
    /\ UNCHANGED <<eosCalls, shutdownCalls, shutRet, nsVars, wire, writeShut,
                   readShut, captureVars, offerVars>>

\* The session as the eos callback's progress shows it: Streaming until the
\* first end of stream, Draining while the callback it triggers runs, Closed
\* from its return on.
SessionState ==
    IF eosCalls = 0
      THEN "Streaming"
      ELSE IF eosCalls = 1 /\ eos_pc # "idle" THEN "Draining" ELSE "Closed"

\* ------------------------------------------ pw_capture.rs: process callback

\* The chunk stride values a producer hands out.
Strides == {4, 8}

\* The dmabuf descriptor of data i of buffer id.
RawFd(id, i) == 10 * id + i

\* A buffer with n datas; data i has the descriptor RawFd(id, i), chunk
\* offset 8 * (i - 1) and stride st.
PwBuffer(id, n, st) ==
    [id |-> id, datas |-> [i \in 1..n |-> [fd |-> RawFd(id, i),
                                           offset |-> 8 * (i - 1),
                                           stride |-> st]]]

\* A u64 as its two u32 halves (lines 24-29: modifier_hi, modifier_lo).
U64(hi, lo) == [hi |-> hi, lo |-> lo]

\* Line 153: the format the callbacks capture.
InitFormat ==
    [width |-> 0, height |-> 0, format |-> 0, modifier |-> U64(0, 0)]

\* The producer queues a buffer on the stream, which it does once the buffer
\* parameters were requested after a format notification.
PwQueueBuffer(n, st) ==
    /\ ~crashed
    /\ negotiated
    /\ nextBuf < MaxBuffers
    /\ Len(pwQueue) < MaxQueue
    /\ nextBuf' = nextBuf + 1
    /\ pwQueue' = Append(pwQueue, PwBuffer(nextBuf + 1, n, st))
    /\ UNCHANGED <<format, onFrame, discarded, paramCalls, lastParam,
                   updateParams, negotiated, crashed, sinkVars, offerVars>>

\* Faulty variant of DequeueAll: the first buffer dequeued is kept, the later ones
\* replaced.
DequeueFirst(q, maybe, old) ==
    IF q = <<>>
      THEN <<maybe, old>>
      ELSE <<<<Head(q)>>, old \cup {Tail(q)[i].id : i \in DOMAIN Tail(q)}>>

\* Lines 189-193: `while let Some(buffer) = stream.dequeue_buffer()
\* { maybe_buffer = Some(buffer); }`, as <<maybe_buffer, buffers replaced>>.
RECURSIVE DequeueAll(_, _, _)
DequeueAll(q, maybe, old) ==
    IF q = <<>>
      THEN <<maybe, old>>
      ELSE DequeueAll(Tail(q), <<Head(q)>>,
                      old \cup {b.id : b \in {maybe[i] : i \in DOMAIN maybe}})

\* Lines 200-207: one PipewireDmabufPlane per data.
PlanesOf(buffer) ==
    [i \in DOMAIN buffer.datas |->
        [fd |-> 0, offset |-> buffer.datas[i].offset,
         stride |-> buffer.datas[i].stride]]

\* Lines 188-210: the process callback.
Process ==
    LET got == DequeueAll(pwQueue, <<>>, {})
        maybe_buffer == got[1]
    IN  /\ ~crashed
        /\ pwQueue' = <<>>
        /\ discarded' = discarded \cup got[2]
        /\ IF maybe_buffer # <<>>
             THEN onFrame' = Append(onFrame,
                                    [format |-> format,
                                     buffer |-> maybe_buffer[1].id,
                                     planes |-> PlanesOf(maybe_buffer[1])])
             ELSE onFrame' = onFrame
        /\ UNCHANGED <<nextBuf, format, paramCalls, lastParam, updateParams,
                       negotiated, crashed, sinkVars, offerVars>>

\* ------------------------------------------- pw_capture.rs: the format offer

\* Lines 48-55: the fourcc codes the match arms name.
DRM_FORMAT_ARGB8888 == 875713089
DRM_FORMAT_ABGR8888 == 875708993
DRM_FORMAT_XRGB8888 == 875713112
DRM_FORMAT_XBGR8888 == 875709016

\* Lines 49-55: the libspa_sys video format ids the arms return, and the id
\* of no format.
SPA_VIDEO_FORMAT_UNKNOWN == 0
SPA_VIDEO_FORMAT_RGBx == 7
SPA_VIDEO_FORMAT_BGRx == 8
SPA_VIDEO_FORMAT_RGBA == 11
SPA_VIDEO_FORMAT_BGRA == 12

\* The spa video formats the match can return.
SpaVideoFormats == {SPA_VIDEO_FORMAT_BGRA, SPA_VIDEO_FORMAT_RGBA,
                    SPA_VIDEO_FORMAT_BGRx, SPA_VIDEO_FORMAT_RGBx}

\* Option<u32>: None is the empty sequence, Some(x) is <<x>>.
None == <<>>
Some(x) == <<x>>

\* Faulty variant of fourcc_to_spa_video_format: the XRGB8888 arm is missing.
fourcc_without_xrgb(fourcc) ==
    CASE fourcc = DRM_FORMAT_ARGB8888 -> Some(SPA_VIDEO_FORMAT_BGRA)
      [] fourcc = DRM_FORMAT_ABGR8888 -> Some(SPA_VIDEO_FORMAT_RGBA)
      [] fourcc = DRM_FORMAT_XBGR8888 -> Some(SPA_VIDEO_FORMAT_RGBx)
      [] OTHER -> None

\* Lines 45-58.
fourcc_to_spa_video_format(fourcc) ==
    CASE fourcc = DRM_FORMAT_ARGB8888 -> Some(SPA_VIDEO_FORMAT_BGRA)
      [] fourcc = DRM_FORMAT_ABGR8888 -> Some(SPA_VIDEO_FORMAT_RGBA)
      [] fourcc = DRM_FORMAT_XRGB8888 -> Some(SPA_VIDEO_FORMAT_BGRx)
      [] fourcc = DRM_FORMAT_XBGR8888 -> Some(SPA_VIDEO_FORMAT_RGBx)
      [] OTHER -> None

\* Line 100: `modifier as _` for the u32 of an Id keeps the low 32 bits.
AsU32(n) == n.lo

\* Lines 77-143: the EnumFormat object of one candidate.
format_get_params(fmt, modifier, rate) ==
    [mediaType |-> "video", mediaSubtype |-> "raw",
     format |-> fmt,
     modifier |-> AsU32(modifier),
     modifierFlags |-> {"MANDATORY", "DONT_FIXATE"},
     size |-> [default |-> <<256, 256>>, min |-> <<1, 1>>,
               max |-> <<8192, 8192>>],
     framerate |-> [default |-> <<rate, 1>>, min |-> <<0, 1>>,
                    max |-> <<1000, 1>>]]

\* The candidates `formats` is drawn from, and the values of `fps`.  The
\* last code (RGB565) is one that no arm of the match names.
Codes == {DRM_FORMAT_ARGB8888, DRM_FORMAT_ABGR8888, DRM_FORMAT_XRGB8888,
          DRM_FORMAT_XBGR8888, 909199186}
Modifiers == {U64(0, 0), U64(0, 1), U64(1, 1)}
DrmFormat == [code : Codes, modifier : Modifiers]
FormatLists == UNION {[1..n -> DrmFormat] : n \in 0..MaxFormats}
Fps == {30, 60}

\* Faulty variant of FilterMap: a candidate whose pixel format is already in
\* the list adds nothing.
RECURSIVE FilterMapDedup(_, _)
FilterMapDedup(fs, rate) ==
    IF fs = <<>>
      THEN <<>>
      ELSE LET f == fs[Len(fs)]
               before == FilterMapDedup(SubSeq(fs, 1, Len(fs) - 1), rate)
               spa_video_format == fourcc_to_spa_video_format(f.code)
           IN  IF \/ spa_video_format = None
                  \/ \E i \in DOMAIN before :
                        before[i].format = spa_video_format[1]
                 THEN before
                 ELSE Append(before, format_get_params(spa_video_format[1],
                                                       f.modifier, rate))

\* Lines 213-216: `formats.iter().filter_map(..)`, as the objects built, in
\* the order of the candidates.
RECURSIVE FilterMap(_, _)
FilterMap(fs, rate) ==
    IF fs = <<>>
      THEN <<>>
      ELSE LET f == Head(fs)
               spa_video_format == fourcc_to_spa_video_format(f.code)
           IN  IF spa_video_format = None
                 THEN FilterMap(Tail(fs), rate)
                 ELSE <<format_get_params(spa_video_format[1], f.modifier,
                                          rate)>>
                      \o FilterMap(Tail(fs), rate)

\* Lines 213-216: format_params is built from the candidates.  Each element
\* is the as_ptr() of a Vec that is dropped at the end of the closure call,
\* so it points at freed memory that held the object `built`.
BuildFormatParams ==
    /\ offer_pc = "create"
    /\ \E fs \in FormatLists, rate \in Fps :
          /\ formats' = fs
          /\ fps' = rate
          /\ format_params' =
                 LET pods == FilterMap(fs, rate)
                 IN  [i \in DOMAIN pods |-> [built |-> pods[i]]]
    /\ offer_pc' = "connect"
    /\ UNCHANGED <<offer, sinkVars, captureVars>>

\* What freed memory reads as once the allocator wrote into it.
ClobberedPod == format_get_params(SPA_VIDEO_FORMAT_UNKNOWN, U64(0, 0), 0)

\* What a read through format_params[i] can give: the object still intact,
\* an object built later into the reused block, or clobbered memory.
ReadThrough(ps, i) ==
    {ps[i].built} \cup {ps[j].built : j \in {k \in DOMAIN ps : k > i}}
                  \cup {ClobberedPod}

\* Lines 218-223: stream.connect reads the offer through format_params; the
\* result of connect is not looked at.
StreamConnect ==
    /\ offer_pc = "connect"
    /\ offer' \in {reads \in [DOMAIN format_params ->
                                  UNION {ReadThrough(format_params, i) :
                                            i \in DOMAIN format_params}] :
                       \A i \in DOMAIN reads :
                           reads[i] \in ReadThrough(format_params, i)}
    /\ offer_pc' = "run"
    /\ UNCHANGED <<formats, fps, format_params, sinkVars, captureVars>>

\* ------------------------------------------ pw_capture.rs: param_changed

\* The param ids a notification can carry; only SPA_PARAM_Format is named
\* by the code.
ParamIds == {"SPA_PARAM_Format", "SPA_PARAM_Buffers"}

\* What `param` can point at: nothing (null), a format object with a
\* concrete pixel format, size and modifier, a well-formed object that has
\* no pixel format or size, or bytes that are no object at all.
Pod(kind, w, h, f, m) ==
    [kind |-> kind, width |-> w, height |-> h, format |-> f, modifier |-> m]
NullParam == Pod("null", 0, 0, SPA_VIDEO_FORMAT_UNKNOWN, U64(0, 0))
ObjectPods == {Pod("object", 640, 480, SPA_VIDEO_FORMAT_BGRx, U64(0, 1)),
               Pod("object", 1, 1, SPA_VIDEO_FORMAT_RGBA, U64(1, 1))}
LackingPod == Pod("lacking", 0, 0, SPA_VIDEO_FORMAT_UNKNOWN, U64(0, 0))
MalformedPod == Pod("malformed", 0, 0, SPA_VIDEO_FORMAT_UNKNOWN, U64(0, 0))
Params == {NullParam, LackingPod, MalformedPod} \cup ObjectPods

\* No notification yet.
NoParam == [id |-> "none", param |-> NullParam]

\* Faulty variant of Ignored: the param id is not looked at.
IgnoredOnlyNull(id, param) == param = NullParam

\* Lines 166-168: `if param.is_null() || *id != SPA_PARAM_Format { return; }`
Ignored(id, param) == param = NullParam \/ id # "SPA_PARAM_Format"

\* Line 171: the unsafe deserialize_ptr.  It reads as many bytes as the pod's
\* header says, so on bytes that are no object it either fails or reads out
\* of bounds; its result `pod` is never used.
Deserialize(param) ==
    IF param.kind = "malformed" THEN {"Err", "crash"} ELSE {"Ok"}

\* Lines 176-179: the four assignments to `format`.
ReadFormat(pod) ==
    [width |-> 0, height |-> 0, format |-> 0, modifier |-> U64(0, 0)]

\* Lines 60-75: the ParamBuffers object.
format_dmabuf_params ==
    [type |-> "SPA_TYPE_OBJECT_ParamBuffers", id |-> "SPA_PARAM_Buffers",
     dataType |-> "SPA_DATA_DmaBuf"]

\* Lines 165-184: the param_changed callback.
ParamChanged(id, param) ==
    /\ ~crashed
    /\ paramCalls < MaxParams
    /\ paramCalls' = paramCalls + 1
    /\ lastParam' = [id |-> id, param |-> param]
    /\ IF Ignored(id, param)
         THEN UNCHANGED <<format, updateParams, negotiated, crashed>>
         ELSE \E pod \in Deserialize(param) :
                 IF pod = "crash"
                   THEN /\ crashed' = TRUE
                        /\ UNCHANGED <<format, updateParams, negotiated>>
                   ELSE /\ format' = ReadFormat(param)
                        /\ updateParams' =
                               Append(updateParams, format_dmabuf_params)
                        /\ negotiated' = TRUE
                        /\ crashed' = FALSE
    /\ UNCHANGED <<pwQueue, nextBuf, onFrame, discarded, sinkVars, offerVars>>

\* ------------------------------------------------------------ specifications

Init ==
    /\ ns_pc = "idle"
    /\ cur = NoSample
    /\ map = <<>>
    /\ mfd = 0
    /\ result = "none"
    /\ cause = "none"
    /\ injected = FALSE
    /\ sendOk = FALSE
    /\ sentThisCall = 0
    /\ allocsThisCall = 0
    /\ copiedThisCall = 0
    /\ frames = 0
    /\ flow = "ok"
    /\ regions = [r \in 1..MaxFrames |-> NoRegion]
    /\ wire = <<>>
    /\ mutex = "free"
    /\ writeShut = FALSE
    /\ readShut = FALSE
    /\ eos_pc = "idle"
    /\ eosCalls = 0
    /\ shutdownCalls = 0
    /\ shutRet = "none"
    /\ eosReport = "none"
    /\ pwQueue = <<>>
    /\ nextBuf = 0
    /\ format = InitFormat
    /\ onFrame = <<>>
    /\ discarded = {}
    /\ paramCalls = 0
    /\ lastParam = NoParam
    /\ updateParams = <<>>
    /\ negotiated = FALSE
    /\ crashed = FALSE
    /\ offer_pc = "create"
    /\ formats = <<>>
    /\ fps = 0
    /\ format_params = <<>>
    /\ offer = <<>>

NextSink ==
    \/ \E s \in Samples : NS_Pull(s)
    \/ NS_Map
    \/ NS_Create
    \/ NS_SetLen
    \/ NS_AddSeals
    \/ NS_AddSeal
    \/ NS_Mmap
    \/ NS_Copy
    \/ NS_Lock
    \/ NS_Send
    \/ NS_Unlock
    \/ EOS_Begin
    \/ EOS_Lock
    \/ EOS_Shutdown
    \/ EOS_Unlock

NextCapture ==
    \/ \E n \in 0..MaxPlanes, st \in Strides : PwQueueBuffer(n, st)
    \/ Process
    \/ \E id \in ParamIds, param \in Params : ParamChanged(id, param)

NextOffer ==
    \/ BuildFormatParams
    \/ StreamConnect

\* The appsink callbacks of main.rs.
SpecSink == Init /\ [][NextSink]_vars

\* The same, with every started callback running to its end: the threads
\* that run the callbacks are scheduled, and the mutex is released after one
\* send or shutdown.
FairSink ==
    /\ SpecSink
    /\ WF_vars(NS_Map \/ NS_Create \/ NS_SetLen \/ NS_AddSeals \/ NS_AddSeal
               \/ NS_Mmap \/ NS_Copy \/ NS_Lock \/ NS_Send \/ NS_Unlock)
    /\ WF_vars(EOS_Lock \/ EOS_Shutdown \/ EOS_Unlock)

\* The pipewire stream callbacks of pw_capture.rs.
SpecCapture == Init /\ [][NextCapture]_vars

\* The format offer of pipewire_init_stream, for every list of candidates.
SpecOffer == Init /\ [][NextOffer]_vars

\* ------------------------------------------------------------------- claims

\* C1: a process callback that finds N >= 1 buffers queued hands exactly one
\* buffer to on_frame, the most recently queued one, with its planes; the
\* N-1 older buffers are discarded and never handed to on_frame.
C1_FreshestOnly ==
    [][(Len(pwQueue) >= 1 /\ pwQueue' = <<>>) =>
         LET last == pwQueue[Len(pwQueue)]
             call == onFrame'[Len(onFrame')]
         IN  /\ Len(onFrame') = Len(onFrame) + 1
             /\ SubSeq(onFrame', 1, Len(onFrame)) = onFrame
             /\ call.buffer = last.id
             /\ Len(call.planes) = Len(last.datas)
             /\ \A i \in DOMAIN last.datas :
                   /\ call.planes[i].offset = last.datas[i].offset
                   /\ call.planes[i].stride = last.datas[i].stride
             /\ discarded' =
                  discarded \cup {pwQueue[i].id : i \in 1..(Len(pwQueue) - 1)}
             /\ \A i \in DOMAIN onFrame' : onFrame'[i].buffer \notin discarded'
      ]_vars

\* One callback found two buffers: the older was discarded, the newer handed on.
C1_Witness ==
    \E i \in DOMAIN onFrame :
        /\ onFrame[i].buffer - 1 \in discarded
        /\ Len(onFrame[i].planes) = MaxPlanes

\* C2: a descriptor of a frame is on the stream only when every step of the
\* callback succeeded; a callback that failed at any step returned an error
\* and sent nothing.
C2_AtomicOrNothing ==
    /\ sentThisCall \in {0, 1}
    /\ sentThisCall = 1 =>
          \/ ns_pc = "unlock" /\ sendOk
          \/ ns_pc = "idle" /\ result = "Ok"
    /\ cause # "none" =>
          ns_pc = "idle" /\ result \in {"Error", "Eos"} /\ sentThisCall = 0
    /\ (ns_pc = "idle" /\ result \in {"Error", "Eos"}) =>
          cause # "none" /\ sentThisCall = 0

\* A frame was sent, then the staging of the next one failed at mmap, after
\* its memfd was created, sized and sealed: the stream still holds one message.
C2_Witness ==
    /\ ns_pc = "idle"
    /\ result = "Error"
    /\ cause = "mmap"
    /\ frames = 2
    /\ Len(wire) = 1

\* C3: while the callback handles an FdMemory sample it creates no memfd and
\* copies no byte, and the descriptor it sends is the FdMemory's own.
C3_FdZeroCopy ==
    cur.isFd =>
        /\ allocsThisCall = 0
        /\ copiedThisCall = 0
        /\ mfd = 0
        /\ ns_pc \in {"lock", "send", "unlock"}
        /\ (ns_pc = "unlock" /\ sendOk) =>
              wire[Len(wire)].fds = <<[kind |-> "FdMemory", id |-> cur.fd]>>

\* An FdMemory sample was sent.
C3_Witness == cur.isFd /\ ns_pc = "unlock" /\ sendOk

\* The steps of the staging of a mapped-only memory.
StagingSteps ==
    {"map_readable", "create", "set_len", "add_seals", "add_seal", "mmap"}

\* C4: the staging of a mapped-only memory of any length, zero included,
\* fails only when a resource fails, and otherwise yields a memfd made by this
\* invocation, sent by no earlier one, whose size is the mapped length and
\* whose contents are the mapped bytes.
C4_StagedCopyExact ==
    /\ ns_pc # "panicked"
    /\ (ns_pc = "idle" /\ cause \in StagingSteps) => injected
    /\ (ns_pc \in {"lock", "send", "unlock"} /\ ~cur.isFd) =>
          /\ mfd # 0
          /\ allocsThisCall = 1
          /\ regions[mfd].size = Len(cur.bytes)
          /\ regions[mfd].data = cur.bytes
          /\ \A i \in 1..(Len(wire) - sentThisCall) :
                wire[i].fds # <<[kind |-> "memfd", id |-> mfd]>>
          /\ (ns_pc = "unlock" /\ sendOk) =>
                wire[Len(wire)].fds = <<[kind |-> "memfd", id |-> mfd]>>

\* A zero-length range and a range of the greatest length were both staged
\* and sent.
C4_Witness ==
    \E i, j \in DOMAIN wire :
        /\ wire[i].fds[1].kind = "memfd"
        /\ wire[j].fds[1].kind = "memfd"
        /\ regions[wire[i].fds[1].id].size = 0
        /\ regions[wire[j].fds[1].id].data = [k \in 1..MaxLen |->
                                                IF k % 2 = 1 THEN 2 ELSE 1]

\* The memfds whose descriptor was written to the stream.
SentMemfds ==
    {wire[i].fds[1].id : i \in {k \in DOMAIN wire : wire[k].fds[1].kind = "memfd"}}

\* C5: every memfd whose descriptor is on the stream is sealed against
\* further writes: no holder of the descriptor can write its contents or
\* change its size.
C5_SentRegionsWriteSealed ==
    \A r \in SentMemfds :
        /\ ~MmapMutAllowed(regions[r])
        /\ \A n \in 0..(MaxLen + 1) :
              n # regions[r].size => ~SetLenAllowed(regions[r], n)

\* C6: the copy into a memfd comes before any seal, the seals come in the
\* order shrink and grow, then seal-seal, and nothing is written after the
\* first seal.
C6_CopyBeforeSeals ==
    \A r \in DOMAIN regions :
        LET log == regions[r].log
        IN  \A i, j \in DOMAIN log :
                /\ (log[i] = "copy" /\ log[j] \in {"add_seals", "add_seal"})
                      => i < j
                /\ (log[i] = "add_seals" /\ log[j] = "add_seal") => i < j

\* C7: every message on the stream is one payload byte with one descriptor;
\* a callback that returns Ok has written exactly one such message, carrying
\* the descriptor of its frame's single memory, before it returns; and the
\* stream only ever grows at its end, so the messages are read in the order
\* they were sent.
C7_OneMessagePerPlane ==
    /\ [](/\ \A i \in DOMAIN wire :
                Len(wire[i].payload) = 1 /\ Len(wire[i].fds) = 1
          /\ (ns_pc = "unlock" /\ sendOk) =>
                /\ sentThisCall = 1
                /\ wire[Len(wire)] = [payload |-> <<0>>, fds |-> <<SendDesc>>]
          /\ (ns_pc = "idle" /\ result = "Ok") => sentThisCall = 1)
    /\ [][/\ Len(wire') >= Len(wire)
          /\ SubSeq(wire', 1, Len(wire)) = wire
          /\ Len(wire') > Len(wire) =>
                /\ Len(wire') = Len(wire) + 1
                /\ ns_pc = "send"
                /\ mutex = "new_sample"
          /\ (ns_pc = "unlock" /\ ns_pc' = "idle") =>
                /\ wire' = wire
                /\ result' = IF sendOk THEN "Ok" ELSE "Error"
         ]_vars

\* Two frames were sent, an FdMemory and then a staged memfd, and the second
\* callback returned Ok.
C7_Witness ==
    /\ ns_pc = "idle"
    /\ result = "Ok"
    /\ Len(wire) = 2
    /\ wire[1].fds[1].kind = "FdMemory"
    /\ wire[2].fds[1].kind = "memfd"

\* C8: the first end of stream, arriving in Streaming, takes the session to
\* Draining; the callback it starts shuts down the write direction only,
\* exactly once, and the session then reaches Closed.
C8_StopDrainsOnce ==
    /\ [][(SessionState = "Streaming" /\ eos_pc' # eos_pc)
             => SessionState' = "Draining"]_vars
    /\ [][(SessionState = "Draining" /\ SessionState' # "Draining")
             => (SessionState' = "Closed" /\ shutdownCalls' = 1)]_vars
    /\ [](SessionState = "Streaming" => (shutdownCalls = 0 /\ ~writeShut))
    /\ [](SessionState = "Draining" => shutdownCalls <= 1)
    /\ [](shutdownCalls >= 1 => writeShut)
    /\ [](~readShut)
    /\ (SessionState = "Draining" ~> SessionState = "Closed")

\* The first end of stream was handled to its end: one shutdown, the write
\* half shut, the read half open.
C8_Witness ==
    /\ SessionState = "Closed"
    /\ eosCalls = 1
    /\ shutdownCalls = 1
    /\ writeShut
    /\ ~readShut

\* C9: an eos callback that runs after the session is Closed fails, reports
\* the failure and does not shut the stream down again.
C9_SecondEosFails ==
    (eosCalls >= 2 /\ eos_pc = "idle") =>
        (eosReport = "failure" /\ shutdownCalls = 1)

\* C10: the callback that sends and the callback that shuts down never use
\* the stream at the same time, and whoever uses it holds the mutex.
C10_OneInFlight ==
    /\ ~(ns_pc \in {"send", "unlock"} /\ eos_pc \in {"shutdown", "unlock"})
    /\ ns_pc \in {"send", "unlock"} <=> mutex = "new_sample"
    /\ eos_pc \in {"shutdown", "unlock"} <=> mutex = "eos"

\* A send is in flight while the eos callback waits for the mutex.
C10_Witness == ns_pc = "send" /\ eos_pc = "lock" /\ mutex = "new_sample"

\* --------------------------------------------------- claims on the offer

\* The positions of the candidates whose pixel format the match knows, in
\* the order of the candidates.
Supported(fs) ==
    SelectSeq([i \in DOMAIN fs |-> i],
              LAMBDA i : fourcc_to_spa_video_format(fs[i].code) # None)

\* C11: once the offer is made, every entry that stream.connect reads has a
\* pixel format of the vocabulary, and the offer is not empty when at least
\* one candidate has such a format.
C11_OfferInVocabulary ==
    offer_pc = "run" =>
        /\ \A i \in DOMAIN offer : offer[i].format \in SpaVideoFormats
        /\ Supported(formats) # <<>> => offer # <<>>

\* C12 as amended: the offer has one entry per candidate whose pixel format
\* the match knows, built from that candidate and in the candidates' order,
\* so two candidates with one pixel format give two entries.
C12_OneEntryPerSupportedCandidate ==
    offer_pc # "create" =>
        /\ Len(format_params) = Len(Supported(formats))
        /\ \A k \in DOMAIN format_params :
              LET f == formats[Supported(formats)[k]]
              IN  format_params[k].built =
                      format_get_params(fourcc_to_spa_video_format(f.code)[1],
                                        f.modifier, fps)
        /\ offer_pc = "run" => Len(offer) = Len(format_params)

\* Two candidates with the same supported pixel format were offered.
C12_Witness ==
    /\ offer_pc = "run"
    /\ Len(formats) = 2
    /\ formats[1].code = formats[2].code
    /\ formats[1].modifier # formats[2].modifier
    /\ Len(offer) = 2

\* C12 as stated: the offer has exactly one entry per distinct supported
\* pixel format.
C12_OneEntryPerDistinctFormat ==
    offer_pc # "create" =>
        Len(format_params) =
            Cardinality({fourcc_to_spa_video_format(formats[i].code) :
                            i \in DOMAIN formats} \ {None})

\* ------------------------------------------- claims on the stream callbacks

\* The notification that the step delivers is a format selection: not null
\* and carrying SPA_PARAM_Format.
Selection(l) == l.param # NullParam /\ l.id = "SPA_PARAM_Format"

\* C13: a selected format whose object lacks a pixel format or size is
\* rejected, so that nothing of the callback's state changes; otherwise the
\* fields of `format` become the object's width, height, pixel format and
\* modifier.
C13_FormatReadFromObject ==
    [][paramCalls' # paramCalls /\ Selection(lastParam') =>
          LET p == lastParam'.param
          IN  /\ p = LackingPod =>
                    /\ format' = format
                    /\ updateParams' = updateParams
                    /\ negotiated' = negotiated
              /\ p \in ObjectPods =>
                    format' = [width |-> p.width, height |-> p.height,
                               format |-> p.format,
                               modifier |-> p.modifier]]_vars

\* C14: a param_changed call that gets past its guard passes exactly one
\* buffer-parameters object to update_params, and that object asks for
\* dmabuf data; a call with a null param or an id other than
\* SPA_PARAM_Format passes nothing and leaves `format` as it was; no other
\* step calls update_params.
C14_OneBufferRequestPerSelection ==
    [][/\ paramCalls' = paramCalls => updateParams' = updateParams
       /\ paramCalls' # paramCalls /\ ~Selection(lastParam') =>
             updateParams' = updateParams /\ format' = format
       /\ paramCalls' # paramCalls /\ Selection(lastParam') /\ ~crashed' =>
             /\ Len(updateParams') = Len(updateParams) + 1
             /\ SubSeq(updateParams', 1, Len(updateParams)) = updateParams
             /\ updateParams'[Len(updateParams')].id = "SPA_PARAM_Buffers"
             /\ updateParams'[Len(updateParams')].dataType
                    = "SPA_DATA_DmaBuf"]_vars

\* A format selection asked for buffers once, and the notification of
\* another param after it asked for nothing.
C14_Witness ==
    /\ paramCalls = 2
    /\ lastParam.id = "SPA_PARAM_Buffers"
    /\ lastParam.param \in ObjectPods
    /\ Len(updateParams) = 1
    /\ negotiated

\* C18: a format notification whose param cannot be decoded is dropped: the
\* callback changes nothing and the process keeps running.
C18_MalformedDropped ==
    [][paramCalls' # paramCalls /\ Selection(lastParam')
          /\ lastParam'.param = MalformedPod =>
              /\ format' = format
              /\ updateParams' = updateParams
              /\ negotiated' = negotiated
              /\ ~crashed']_vars

\* C19: every plane handed to on_frame carries the descriptor of the data
\* it was made from, never a placeholder.
C19_NoStubDescriptor ==
    \A k \in DOMAIN onFrame :
        \A i \in DOMAIN onFrame[k].planes :
            onFrame[k].planes[i].fd = RawFd(onFrame[k].buffer, i)

\* C20: on_frame is called only after a format selection, and the format it
\* is given is one a selection produced, not the all-zero value of line 153.
C20_DeliveredFormatSelected ==
    /\ onFrame # <<>> => negotiated
    /\ \A k \in DOMAIN onFrame : onFrame[k].format # InitFormat

\* --------------------------------------------- claims on failing callbacks

\* The steps of new_sample in which the memfd is staged.
StagingPcs == {"map", "create", "set_len", "add_seals", "add_seal", "mmap"}

\* C16: once new_sample has returned an error, whether from the staging or
\* from send_fds, the session has left Streaming for Draining (or Closed
\* after it), and the step that failed is recorded.
C16_ErrorMovesToDraining ==
    (ns_pc = "idle" /\ cause \in StagingSteps \cup {"send_fds"}) =>
        /\ result = "Error"
        /\ SessionState \in {"Draining", "Closed"}

\* C17 as amended: a resource failure while staging drops the frame in
\* full (nothing of it is written to the stream and its memfd is gone) and
\* is returned as FlowError::Error, which stops the flow: no later sample
\* is pulled and nothing more is written to the stream.
C17_StagingFailureIsFatal ==
    [][/\ (ns_pc \in StagingPcs /\ ns_pc' = "idle") =>
             /\ result' = "Error"
             /\ cause' \in StagingSteps
             /\ wire' = wire
             /\ sentThisCall' = 0
             /\ mfd # 0 => regions'[mfd] = [NoRegion EXCEPT !.created = TRUE]
             /\ flow' = "stopped"
       /\ flow = "stopped" =>
             /\ flow' = "stopped"
             /\ ns_pc' = "idle"
             /\ frames' = frames
             /\ regions' = regions
             /\ wire' = wire]_vars

\* A frame was sent, the staging of the next one failed when its memfd was
\* to be sized, and the flow is stopped before any stop was asked for.
C17_Witness ==
    /\ ns_pc = "idle"
    /\ cause = "set_len"
    /\ flow = "stopped"
    /\ frames = 2
    /\ eosCalls = 0
    /\ Len(wire) = 1
    /\ regions[2] = [NoRegion EXCEPT !.created = TRUE]

\* C17 as stated: after a resource failure while staging, the session is
\* still Streaming and the callback is handed the next sample.
C17_StagingFailureKeepsStreaming ==
    (ns_pc = "idle" /\ cause \in StagingSteps /\ eosCalls = 0) =>
        SessionState = "Streaming" /\ flow = "ok"

\* ------------------------------------------------ claim on the modifier

\* C21: the entry built for a candidate with a supported pixel format
\* carries the candidate's whole 64-bit modifier, so two such candidates
\* with different modifiers, the upper 32 bits included, get entries with
\* different modifier values.
C21_ModifierCarriedInFull ==
    offer_pc # "create" =>
        /\ Len(format_params) = Len(Supported(formats))
        /\ \A k \in DOMAIN format_params :
              U64(0, format_params[k].built.modifier)
                  = formats[Supported(formats)[k]].modifier
        /\ \A j, k \in DOMAIN format_params :
              formats[Supported(formats)[j]].modifier
                      # formats[Supported(formats)[k]].modifier
                  => format_params[j].built.modifier
                         # format_params[k].built.modifier

====
